---- MODULE Spec2Model ----
(***************************************************************************)
(* GCP RHEL License Explorer: the listing (ListInstances), the export     *)
(* (ExportInstancesToYAML), the reconciliation of the export file against  *)
(* the live instance list (CheckInstancesFromFile), the BYOS -> PAYG       *)
(* conversion loop (ConvertToPAYG), its verification (VerifyConversion)    *)
(* and the management menu (ManageInstances and its handlers).             *)
(*                                                                         *)
(* Go strings are sequences of one-character strings, so that Sprintf,     *)
(* Join, Split, ToLower and Contains are computed as the code computes     *)
(* them.  Opaque values that the code only copies (the two target license  *)
(* URLs, status words, error values) are TLA+ strings.                     *)
(***************************************************************************)
EXTENDS Naturals, Sequences, FiniteSets, TLC

VARIABLES
    instances,          \* the live instance list handed to the workflow
    file,               \* the export file {projectID}-instances.yml
    pc,                 \* position of the workflow
    fresh,              \* the file is the export of `instances`, untouched since
    matchedInstances,   \* CheckInstancesFromFile: returned list
    missingInstances,   \* CheckInstancesFromFile: reported missing keys
    err,                \* CheckInstancesFromFile: returned error
    idx,                \* ConvertToPAYG: loop position
    results,            \* ConvertToPAYG: conversion records appended so far
    patches,            \* disk patch requests sent so far
    resps,              \* API responses received, one per loop iteration
    run,                \* number of the ConvertToPAYG run over the same list
    prevResults,        \* results of the previous run
    prevPatches,        \* patch requests of the previous run
    prevResps,          \* API responses of the previous run
    pauses,             \* time.Sleep calls of the workflow so far
    conversions,        \* VerifyConversion: the records, updated in place
    vidx,               \* VerifyConversion: loop position
    vresps,             \* API responses to VerifyConversion, one per iteration
    calls,              \* API calls VerifyConversion has issued
    pages,              \* ListInstances: the pages the API answers with
    page,               \* ListInstances: the page fetched next
    raws,               \* ListInstances: the API instances processed so far
    listErr,            \* ListInstances: returned error
    otherFile,          \* the export file of another project
    input,              \* ManageInstances: the line read at the menu
    selection,          \* SelectInstance: the line read
    answer,             \* handleBYOStoPAYG: the line read at the confirmation
    mutations,          \* start and stop requests sent by the command under way
    console             \* the last message of the menu or of a handler

vars == <<instances, file, pc, fresh, matchedInstances, missingInstances, err,
          idx, results, patches, resps, run, prevResults, prevPatches, prevResps,
          pauses, conversions, vidx, vresps, calls, pages, page, raws, listErr,
          otherFile, input, selection, answer, mutations, console>>

matchVars == <<matchedInstances, missingInstances, err>>
convVars == <<idx, results, patches, resps, run, prevResults, prevPatches, prevResps>>
verVars == <<conversions, vidx, vresps, calls>>
listVars == <<pages, page, raws, listErr>>
uiVars == <<input, selection, answer, mutations, console>>

(***************************************************************************)
(* Bounds of the model.                                                    *)
(***************************************************************************)
MaxLive == 2        \* live instances in the project
MaxFile == 2        \* records in the export file
MaxBatch == 2       \* instances handed to ConvertToPAYG directly

(***************************************************************************)
(* Strings.                                                                *)
(***************************************************************************)
\* strings.ToLower on one character (the letters the model uses).
LowerChar(c) ==
    CASE c = "A" -> "a"
      [] c = "B" -> "b"
      [] c = "E" -> "e"
      [] c = "H" -> "h"
      [] c = "L" -> "l"
      [] c = "R" -> "r"
      [] c = "Y" -> "y"
      [] c = "Z" -> "z"
      [] OTHER -> c

ToLower(s) == [k \in 1..Len(s) |-> LowerChar(s[k])]

\* strings.Contains
Contains(s, sub) ==
    \E k \in 0..Len(s) :
        /\ k + Len(sub) <= Len(s)
        /\ SubSeq(s, k + 1, k + Len(sub)) = sub

\* strings.Join
RECURSIVE Join(_, _)
Join(elems, sep) ==
    IF elems = <<>> THEN <<>>
    ELSE IF Len(elems) = 1 THEN elems[1]
    ELSE elems[1] \o sep \o Join(Tail(elems), sep)

\* The last element of strings.Split(s, "/"): what follows the last "/".
RECURSIVE LastSegment(_)
LastSegment(s) ==
    IF s = <<>> THEN <<>>
    ELSE IF s[Len(s)] = "/" THEN <<>>
    ELSE LastSegment(SubSeq(s, 1, Len(s) - 1)) \o <<s[Len(s)]>>

\* Mutant: the key without its separator.
Key_NoSeparator(zone, name) == zone \o name

\* fmt.Sprintf("%s/%s", zone, name)
Key(zone, name) == zone \o <<"/">> \o name

(***************************************************************************)
(* Data of the reconciliation model.  Zone and instance names of the live  *)
(* list are Compute Engine resource names (no "/"); what the export file   *)
(* holds is whatever the operator left there.                              *)
(***************************************************************************)
ProjectID == "p"
OtherProject == "q"

LiveZones == { <<"z">>, <<"z", "a">> }
LiveNames == { <<"a">>, <<"a", "a">> }
FileZones == LiveZones \cup { <<"Z">>, <<"z", "/", "a">> }
FileNames == LiveNames \cup { <<"A">>, <<"a", "/", "a">> }

Rhel8Code == <<"r", "h", "e", "l", "-", "8">>
Rhel9Upper == <<"R", "H", "E", "L", "-", "9">>
Rhel9Code == <<"r", "h", "e", "l", "-", "9">>
SlesCode == <<"s", "l", "e", "s">>
RhelDash == <<"r", "h", "e", "l", "-">>
Eight == <<"8">>

\* api.Instance
Instance(name, zone, status, codes) ==
    [Name |-> name, Zone |-> zone, MachineType |-> "e2", Status |-> status,
     IP |-> "ip", LicenseCodes |-> codes, DiskType |-> "SCSI-PERSISTENT",
     DiskSizeGB |-> "20", Project |-> ProjectID]

\* api.InstanceExport
InstanceExport(name, zone, machineType, status, licenses) ==
    [name |-> name, zone |-> zone, machineType |-> machineType,
     status |-> status, licenses |-> licenses]

\* Live instances of the reconciliation model: the instances named "aa" are
\* stopped and carry a license, the others run and carry none, so that live
\* and file attributes can differ.
MatchInstances ==
    { Instance(<<"a">>, z, "RUNNING", <<>>) : z \in LiveZones }
    \cup { Instance(<<"a", "a">>, z, "TERMINATED", <<Rhel8Code>>) : z \in LiveZones }

\* Records an edited file may hold (status and licenses as once exported).
FileRecords ==
    { InstanceExport(n, z, "e2", "RUNNING", <<>>) : n \in FileNames, z \in FileZones }

\* All sequences over S of length lo..hi.
SeqsOf(S, lo, hi) == UNION { [1..n -> S] : n \in lo..hi }

\* The (zone, name) pair identifies an instance within a project.
DistinctIdentity(list) ==
    \A a, b \in 1..Len(list) :
        (list[a].Zone = list[b].Zone /\ list[a].Name = list[b].Name) => a = b

LiveLists(S, hi) == { l \in SeqsOf(S, 0, hi) : DistinctIdentity(l) }

FileAbsent == [kind |-> "absent", recs |-> <<>>]
FileUnreadable == [kind |-> "unreadable", recs |-> <<>>]
FileMalformed == [kind |-> "malformed", recs |-> <<>>]
FileOf(recs) == [kind |-> "ok", recs |-> recs]

FileStates(R, hi) ==
    {FileAbsent, FileUnreadable, FileMalformed} \cup { FileOf(r) : r \in SeqsOf(R, 0, hi) }

(***************************************************************************)
(* ExportInstancesToYAML                                                   *)
(***************************************************************************)
\* Mutant: name and zone written to each other's field.
ExportRecord_Swapped(instance) ==
    InstanceExport(instance.Zone, instance.Name, instance.MachineType,
                   instance.Status, instance.LicenseCodes)

\* The projection of one instance (export.go:27-33).
ExportRecord(instance) ==
    InstanceExport(instance.Name, instance.Zone, instance.MachineType,
                   instance.Status, instance.LicenseCodes)

\* exportData: one record per instance, in order (export.go:25-35).
ExportData(list) == [k \in 1..Len(list) |-> ExportRecord(list[k])]

\* What yaml.Unmarshal reads back from what yaml.Marshal wrote: a sequence
\* of mappings with the string fields as written (export.go:38-44).
WrittenFile(list) == FileOf(ExportData(list))

\* Mutant: one file name for every project.
ExportFilename_Shared(projectID) == <<"instances.yml">>

\* filename (export.go:22)
ExportFilename(projectID) == <<projectID, "-instances.yml">>

\* The export files of the two projects, by name.
FileSystem ==
    [name \in {ExportFilename(ProjectID), ExportFilename(OtherProject)} |->
        IF name = ExportFilename(ProjectID) THEN file ELSE otherFile]

\* os.WriteFile replaces what the named file held (export.go:44).
WriteFile(fs, name, data) == [fs EXCEPT ![name] = data]

\* The files after ExportInstancesToYAML(list, projectID) succeeded
\* (export.go:20-50).
Exported(list, projectID) ==
    WriteFile(FileSystem, ExportFilename(projectID), WrittenFile(list))

ExportInstancesToYAML ==
    /\ pc = "idle"
    /\ file' = Exported(instances, ProjectID)[ExportFilename(ProjectID)]
    /\ otherFile' = Exported(instances, ProjectID)[ExportFilename(OtherProject)]
    /\ fresh' = TRUE
    /\ UNCHANGED <<instances, pc, matchVars, convVars, pauses, verVars, listVars, uiVars>>

(***************************************************************************)
(* CheckInstancesFromFile                                                  *)
(***************************************************************************)
EmptyMap == [k \in {} |-> k]

\* instanceMap[key] = instance (payg_converter.go:53)
MapPut(m, key, instance) ==
    [k \in DOMAIN m \cup {key} |-> IF k = key THEN instance ELSE m[k]]

\* payg_converter.go:50-54
RECURSIVE InstanceMapFrom(_, _)
InstanceMapFrom(m, list) ==
    IF list = <<>> THEN m
    ELSE InstanceMapFrom(MapPut(m, Key(list[1].Zone, list[1].Name), list[1]), Tail(list))

InstanceMap(list) == InstanceMapFrom(EmptyMap, list)

\* The key of a file record (payg_converter.go:61).
RecordKey(fileInstance) == Key(fileInstance.zone, fileInstance.name)

\* payg_converter.go:62
Found(m, fileInstance) == RecordKey(fileInstance) \in DOMAIN m

\* Mutant: the matched entry takes the status and licenses the file holds.
MatchedEntry_FileValues(m, fileInstance) ==
    [m[RecordKey(fileInstance)] EXCEPT !.Status = fileInstance.status,
                                       !.LicenseCodes = fileInstance.licenses]

\* The instance appended for a found record (payg_converter.go:62-63).
MatchedEntry(m, fileInstance) == m[RecordKey(fileInstance)]

\* The loop over the file's records (payg_converter.go:60-67):
\* [matched, missing] after the records of fileInstances.
RECURSIVE MatchLoop(_, _, _, _)
MatchLoop(m, fileInstances, matched, missing) ==
    IF fileInstances = <<>> THEN [matched |-> matched, missing |-> missing]
    ELSE IF Found(m, fileInstances[1])
         THEN MatchLoop(m, Tail(fileInstances),
                        Append(matched, MatchedEntry(m, fileInstances[1])), missing)
         ELSE MatchLoop(m, Tail(fileInstances),
                        matched, Append(missing, RecordKey(fileInstances[1])))

\* Mutant: a file that cannot be read reported as a parse error.
ReadError_Merged(f) ==
    IF f.kind = "absent" THEN "notfound"
    ELSE IF f.kind \in {"unreadable", "malformed"} THEN "parse"
    ELSE "none"

\* The error returned before the matching starts, "none" when the file was
\* read and parsed (payg_converter.go:33-47).
ReadError(f) ==
    IF f.kind = "absent" THEN "notfound"
    ELSE IF f.kind = "unreadable" THEN "read"
    ELSE IF f.kind = "malformed" THEN "parse"
    ELSE "none"

\* payg_converter.go:78-80
NoMatchError(matched) == IF Len(matched) = 0 THEN "nomatch" ELSE "none"

CheckInstancesFromFile ==
    /\ pc \in {"idle", "byos"}
    /\ LET re == ReadError(file)
           out == MatchLoop(InstanceMap(instances), file.recs, <<>>, <<>>)
       IN  IF re # "none"
           THEN /\ err' = re
                /\ matchedInstances' = <<>>
                /\ missingInstances' = <<>>
           ELSE /\ err' = NoMatchError(out.matched)
                /\ matchedInstances' = out.matched
                /\ missingInstances' = out.missing
    /\ pc' = "checked"
    /\ UNCHANGED <<instances, file, fresh, convVars, pauses, verVars, listVars, uiVars, otherFile>>

(***************************************************************************)
(* The reconciliation model: any live list, any file; export, then check.  *)
(***************************************************************************)
\* A line as bufio.Reader.ReadString returns it, or its failure.
Line(text) == [err |-> FALSE, text |-> text]
ReadFailed == [err |-> TRUE, text |-> <<>>]
NoLine == Line(<<>>)

\* The export of the other project, as an earlier session left it.
OtherExport == FileOf(<< InstanceExport(<<"a">>, <<"z">>, "e2", "RUNNING", <<>>) >>)

\* Nothing was read or sent yet.
NoInput ==
    /\ otherFile = OtherExport
    /\ input = NoLine
    /\ selection = NoLine
    /\ answer = NoLine
    /\ mutations = <<>>
    /\ console = ""

\* No listing is under way.
NoListing ==
    /\ pages = <<>>
    /\ page = 0
    /\ raws = <<>>
    /\ listErr = "none"

\* No conversion, verification, listing or command is under way.
NoConversion ==
    /\ idx = 0
    /\ results = <<>>
    /\ patches = <<>>
    /\ resps = <<>>
    /\ run = 0
    /\ prevResults = <<>>
    /\ prevPatches = <<>>
    /\ prevResps = <<>>
    /\ pauses = <<>>
    /\ conversions = <<>>
    /\ vidx = 0
    /\ vresps = <<>>
    /\ calls = <<>>
    /\ NoListing
    /\ NoInput

InitMatch ==
    /\ instances \in LiveLists(MatchInstances, MaxLive)
    /\ file \in FileStates(FileRecords, MaxFile)
    /\ pc = "idle"
    /\ fresh = FALSE
    /\ matchedInstances = <<>>
    /\ missingInstances = <<>>
    /\ err = "none"
    /\ NoConversion

NextMatch ==
    \/ ExportInstancesToYAML
    \/ CheckInstancesFromFile

SpecMatch == InitMatch /\ [][NextMatch]_vars

(***************************************************************************)
(* ConvertToPAYG                                                           *)
(***************************************************************************)
Rhel8Marker == <<"r", "h", "e", "l", "-", "8">>
Rhel9Marker == <<"r", "h", "e", "l", "-", "9">>

\* The pauses of the workflow, in seconds (payg_converter.go:245, 265).
ShortPause == 5
LongPause == 15

Rhel8Server == "https://www.googleapis.com/compute/v1/projects/rhel-cloud/global/licenses/rhel-8-server"
Rhel9Server == "https://www.googleapis.com/compute/v1/projects/rhel-cloud/global/licenses/rhel-9-server"

\* The answers of the API to one loop iteration.  A field the iteration
\* never consults keeps the value it has here.
\*   getErr, Disks           Instances.Get (payg_converter.go:103)
\*   diskErr, SourceImage    Disks.Get (payg_converter.go:153)
\*   clientErr               google.DefaultClient (payg_converter.go:198)
\*   doErr, StatusCode       client.Do (payg_converter.go:209)
\*   opName                  the body parses and names an operation
\*                           (payg_converter.go:238)
NoResponse ==
    [getErr |-> FALSE, Disks |-> <<>>, diskErr |-> FALSE, SourceImage |-> <<>>,
     clientErr |-> FALSE, doErr |-> FALSE, StatusCode |-> 0, opName |-> FALSE]

\* Mutant: the whole source reference taken for the disk name.
DiskName_Unsplit(disks) == disks[1].Source

\* diskName (payg_converter.go:119-128)
DiskName(disks) ==
    IF disks[1].Source # <<>> THEN LastSegment(disks[1].Source) ELSE <<>>

\* currentOS (payg_converter.go:141)
CurrentOS(codes) == ToLower(Join(codes, <<" ">>))

\* Mutant: an unrecognised license defaults to RHEL 9.
Classify_Default(codes) ==
    IF Contains(CurrentOS(codes), Rhel8Marker) THEN "rhel-8" ELSE "rhel-9"

\* Mutant: the marker search without strings.ToLower.
Classify_CaseSensitive(codes) ==
    IF Contains(Join(codes, <<" ">>), Rhel8Marker) THEN "rhel-8"
    ELSE IF Contains(Join(codes, <<" ">>), Rhel9Marker) THEN "rhel-9"
    ELSE IF Len(codes) = 0 THEN "lookup"
    ELSE "unknown"

\* The case the switch takes (payg_converter.go:143-174).
Classify(codes) ==
    IF Contains(CurrentOS(codes), Rhel8Marker) THEN "rhel-8"
    ELSE IF Contains(CurrentOS(codes), Rhel9Marker) THEN "rhel-9"
    ELSE IF Len(codes) = 0 THEN "lookup"
    ELSE "unknown"

\* Mutant: the source image searched as returned, not lowered.
LookupLicense_CaseSensitive(diskErr, sourceImage) ==
    IF diskErr THEN Rhel9Server
    ELSE IF sourceImage # <<>> /\ Contains(sourceImage, Rhel8Marker) THEN Rhel8Server
    ELSE Rhel9Server

\* The license of an instance without license codes (payg_converter.go:158-167).
LookupLicense(diskErr, sourceImage) ==
    IF diskErr THEN Rhel9Server
    ELSE IF sourceImage # <<>> /\ Contains(ToLower(sourceImage), Rhel8Marker) THEN Rhel8Server
    ELSE Rhel9Server

\* paygLicense (payg_converter.go:138-167); "" in the default case.
PaygLicense(instance, r) ==
    LET c == Classify(instance.LicenseCodes)
    IN  IF c = "rhel-8" THEN Rhel8Server
        ELSE IF c = "rhel-9" THEN Rhel9Server
        ELSE IF c = "lookup" THEN LookupLicense(r.diskErr, r.SourceImage)
        ELSE ""

\* apiURL (payg_converter.go:177-178)
ApiURL(instance, diskName) ==
    <<"https://www.googleapis.com/compute/alpha/projects/", instance.Project, "/zones/">>
        \o instance.Zone \o <<"/disks/">> \o diskName \o <<"?paths=licenses">>

\* requestBody, as the JSON document it spells (payg_converter.go:182).
RequestBody(diskName, paygLicense) ==
    [name |-> diskName, licenses |-> <<paygLicense>>]

ControlChars == {"\n", "\t"}

\* http.NewRequest fails on a URL that does not parse (payg_converter.go:185-186).
NewRequestFails(apiURL) == \E k \in 1..Len(apiURL) : apiURL[k] \in ControlChars

\* Mutant: 300 taken for a success.
StatusFailed_Upto300(code) == code < 200 \/ code > 300

\* payg_converter.go:221
StatusFailed(code) == code < 200 \/ code >= 300

\* How far the iteration gets with the answers r.
ReachesClassify(r) ==                       \* payg_converter.go:104-135
    /\ ~r.getErr
    /\ Len(r.Disks) # 0
    /\ DiskName(r.Disks) # <<>>

NeedsLookup(instance, r) ==                 \* payg_converter.go:148-156
    ReachesClassify(r) /\ Classify(instance.LicenseCodes) = "lookup"

ReachesRequest(instance, r) ==              \* payg_converter.go:168-185
    ReachesClassify(r) /\ Classify(instance.LicenseCodes) # "unknown"

ReachesClient(instance, r) ==               \* payg_converter.go:186-198
    /\ ReachesRequest(instance, r)
    /\ ~NewRequestFails(ApiURL(instance, DiskName(r.Disks)))

ReachesDo(instance, r) ==                   \* payg_converter.go:199-209
    ReachesClient(instance, r) /\ ~r.clientErr

Succeeds(instance, r) ==                    \* payg_converter.go:210-227
    /\ ReachesDo(instance, r)
    /\ ~r.doErr
    /\ ~StatusFailed(r.StatusCode)

\* Mutant: the provisional text of a running instance whatever the status.
ProvisionalOS_IgnoresStatus(instance, paygLicense) ==
    <<"PAYG: Converting to ", paygLicense>>

\* conversion.NewOS of a success (payg_converter.go:250-254)
ProvisionalOS(instance, paygLicense) ==
    IF instance.Status # "RUNNING"
    THEN <<"PAYG license applied to disk (VM status: ", instance.Status, ")">>
    ELSE <<"PAYG: Converting to ", paygLicense>>

\* The record one iteration appends (payg_converter.go:91-94, 105, 113,
\* 131, 169, 179, 187, 200, 211, 222, 249-255).
Conversion(instance, r) ==
    [Instance |-> instance,
     OriginalOS |-> Join(instance.LicenseCodes, <<",", " ">>),
     ConversionURL |-> IF ReachesRequest(instance, r)
                       THEN ApiURL(instance, DiskName(r.Disks)) ELSE <<>>,
     Success |-> Succeeds(instance, r),
     NewOS |-> IF Succeeds(instance, r)
               THEN ProvisionalOS(instance, PaygLicense(instance, r)) ELSE <<>>]

\* The requests one iteration sends with client.Do (payg_converter.go:185-209).
Sent(instance, r, at) ==
    IF ReachesDo(instance, r)
    THEN << [method |-> "PATCH",
             url |-> ApiURL(instance, DiskName(r.Disks)),
             body |-> RequestBody(DiskName(r.Disks), PaygLicense(instance, r)),
             at |-> at] >>
    ELSE <<>>

\* Mutant: a pause after every request that succeeded.
Slept_EverySuccess(instance, r, at) ==
    IF Succeeds(instance, r)
    THEN << [seconds |-> ShortPause, at |-> at] >>
    ELSE <<>>

\* The pause of one iteration: after a request that succeeded with a body
\* naming an operation (payg_converter.go:238-246).
Slept(instance, r, at) ==
    IF Succeeds(instance, r) /\ r.opName
    THEN << [seconds |-> ShortPause, at |-> at] >>
    ELSE <<>>

\* The answers the API can give to the iteration over `instance`, with the
\* disk lists D, source images I, status codes C and bodies that name an
\* operation or not as N says.
Responses(instance, D, I, C, N) ==
    LET gets == { [NoResponse EXCEPT !.getErr = TRUE] }
                    \cup { [NoResponse EXCEPT !.Disks = d] : d \in D }
        lookups == UNION { IF NeedsLookup(instance, b)
                           THEN { [b EXCEPT !.diskErr = TRUE] }
                                    \cup { [b EXCEPT !.SourceImage = i] : i \in I }
                           ELSE {b} : b \in gets }
        clients == UNION { IF ReachesClient(instance, b)
                           THEN { b, [b EXCEPT !.clientErr = TRUE] }
                           ELSE {b} : b \in lookups }
        dos == UNION { IF ReachesDo(instance, b)
                       THEN { [b EXCEPT !.doErr = TRUE] }
                                \cup { [b EXCEPT !.StatusCode = c] : c \in C }
                       ELSE {b} : b \in clients }
    IN  UNION { IF Succeeds(instance, b)
                THEN { [b EXCEPT !.opName = n] : n \in N }
                ELSE {b} : b \in dos }

\* Mutant: a failed conversion ends the loop.
NextIndex_Break(i, n, conversion) == IF conversion.Success THEN i + 1 ELSE n + 1

\* `continue` and the end of the loop body alike go on with the next
\* instance (payg_converter.go:89, 108, 116, 134, 173, 190, 203, 214, 226).
NextIndex(i, n, conversion) == i + 1

\* The entry of ConvertToPAYG (payg_converter.go:86-87).
ConvertToPAYG ==
    /\ pc' = "convert"
    /\ idx' = 1
    /\ results' = <<>>
    /\ patches' = <<>>
    /\ resps' = <<>>
    /\ run' = 1
    /\ pauses' = <<>>
    /\ UNCHANGED <<instances, file, fresh, matchVars, prevResults, prevPatches,
                   prevResps, verVars, listVars, otherFile>>

\* The matched list of a reconciliation handed to ConvertToPAYG
\* (management.go:198-231).
CallConvertToPAYG ==
    /\ pc = "checked"
    /\ err = "none"
    /\ ConvertToPAYG
    /\ UNCHANGED uiVars

\* One iteration of the loop (payg_converter.go:89-256).
ConvertIteration(D, I, C, N) ==
    /\ pc = "convert"
    /\ idx <= Len(matchedInstances)
    /\ \E r \in Responses(matchedInstances[idx], D, I, C, N) :
           LET instance == matchedInstances[idx]
               conversion == Conversion(instance, r)
           IN  /\ results' = Append(results, conversion)
               /\ patches' = patches \o Sent(instance, r, idx)
               /\ resps' = Append(resps, r)
               /\ pauses' = pauses \o Slept(instance, r, idx)
               /\ idx' = NextIndex(idx, Len(matchedInstances), conversion)
    /\ UNCHANGED <<instances, file, pc, fresh, matchVars, run,
                   prevResults, prevPatches, prevResps, verVars, listVars, uiVars, otherFile>>

\* payg_converter.go:258
ConvertReturn ==
    /\ pc = "convert"
    /\ idx > Len(matchedInstances)
    /\ pc' = "converted"
    /\ UNCHANGED <<instances, file, fresh, matchVars, convVars, pauses, verVars, listVars, uiVars, otherFile>>

\* ConvertToPAYG called once more over the same list; what the run before
\* sent and returned is kept for comparison.
ConvertAgain ==
    /\ pc = "converted"
    /\ run = 1
    /\ pc' = "convert"
    /\ run' = 2
    /\ prevResults' = results
    /\ prevPatches' = patches
    /\ prevResps' = resps
    /\ idx' = 1
    /\ results' = <<>>
    /\ patches' = <<>>
    /\ resps' = <<>>
    /\ pauses' = <<>>
    /\ UNCHANGED <<instances, file, fresh, matchVars, verVars, listVars, uiVars, otherFile>>

(***************************************************************************)
(* License identifiers of a disk's license URLs.                           *)
(***************************************************************************)
\* strings.Split(s, "/")
RECURSIVE Split(_)
Split(s) ==
    IF \A k \in 1..Len(s) : s[k] # "/" THEN <<s>>
    ELSE LET k == CHOOSE j \in 1..Len(s) :
                      s[j] = "/" /\ \A h \in 1..(j - 1) : s[h] # "/"
         IN  <<SubSeq(s, 1, k - 1)>> \o Split(SubSeq(s, k + 1, Len(s)))

\* The path without its trailing slashes (path.Base).
RECURSIVE StripTrailingSlashes(_)
StripTrailingSlashes(s) ==
    IF s # <<>> /\ s[Len(s)] = "/"
    THEN StripTrailingSlashes(SubSeq(s, 1, Len(s) - 1))
    ELSE s

\* path.Base: "." for the empty path, "/" for a path of slashes only, else
\* the last element once the trailing slashes are gone.
PathBase(s) ==
    IF s = <<>> THEN <<".">>
    ELSE IF StripTrailingSlashes(s) = <<>> THEN <<"/">>
    ELSE LastSegment(StripTrailingSlashes(s))

\* fmt.Sprintf("%s:%s", parts[len(parts)-4], parts[len(parts)-1])
LicenseCode(parts) == parts[Len(parts) - 3] \o <<":">> \o parts[Len(parts)]

\* Mutant: the identifiers of ListInstances without the fallback.
RECURSIVE ListLicenseCodes_NoFallback(_)
ListLicenseCodes_NoFallback(licenses) ==
    IF licenses = <<>> THEN <<>>
    ELSE LET rest == ListLicenseCodes_NoFallback(SubSeq(licenses, 1, Len(licenses) - 1))
             parts == Split(licenses[Len(licenses)])
         IN  IF Len(parts) >= 6 THEN Append(rest, LicenseCode(parts)) ELSE rest

\* licenseCodes of ListInstances (part_001:165-180).
RECURSIVE ListLicenseCodes(_)
ListLicenseCodes(licenses) ==
    IF licenses = <<>> THEN <<>>
    ELSE LET rest == ListLicenseCodes(SubSeq(licenses, 1, Len(licenses) - 1))
             license == licenses[Len(licenses)]
             parts == Split(license)
         IN  IF Len(parts) >= 6
             THEN Append(rest, LicenseCode(parts))
             ELSE Append(rest, PathBase(license))

\* licenseCodes of VerifyConversion (payg_converter.go:319-327).
RECURSIVE VerifyLicenseCodes(_)
VerifyLicenseCodes(licenses) ==
    IF licenses = <<>> THEN <<>>
    ELSE LET rest == VerifyLicenseCodes(SubSeq(licenses, 1, Len(licenses) - 1))
             parts == Split(licenses[Len(licenses)])
         IN  IF Len(parts) >= 6 THEN Append(rest, LicenseCode(parts)) ELSE rest

(***************************************************************************)
(* VerifyConversion                                                        *)
(***************************************************************************)
\* The answers of the API to one iteration of VerifyConversion.
\*   getErr, Disks           Instances.Get (payg_converter.go:276)
\*   diskErr, Licenses       Disks.Get (payg_converter.go:308)
NoVerifyResponse ==
    [getErr |-> FALSE, Disks |-> <<>>, diskErr |-> FALSE, Licenses |-> <<>>]

NeedsStartNote == <<"License changed, but VM needs to be started to verify">>
PendingNote == <<"License change may be pending">>

\* The iteration gets as far as Disks.Get (payg_converter.go:281-303).
ReachesDiskGet(r) ==
    /\ ~r.getErr
    /\ Len(r.Disks) # 0
    /\ DiskName(r.Disks) # <<>>

\* Mutant: a re-fetch that fails reported as pending.
VerifiedOS_PendingOnError(conversion, r) ==
    IF ~ReachesDiskGet(r) \/ r.diskErr THEN PendingNote
    ELSE IF Len(VerifyLicenseCodes(r.Licenses)) > 0
         THEN Join(VerifyLicenseCodes(r.Licenses), <<",", " ">>)
    ELSE IF conversion.Instance.Status # "RUNNING" THEN NeedsStartNote
    ELSE PendingNote

\* NewOS of a successful record after its iteration
\* (payg_converter.go:281-338).
VerifiedOS(conversion, r) ==
    IF ~ReachesDiskGet(r) \/ r.diskErr THEN conversion.NewOS
    ELSE IF Len(VerifyLicenseCodes(r.Licenses)) > 0
         THEN Join(VerifyLicenseCodes(r.Licenses), <<",", " ">>)
    ELSE IF conversion.Instance.Status # "RUNNING" THEN NeedsStartNote
    ELSE PendingNote

\* Mutant: the failed records are verified too.
Skipped_None(conversion) == FALSE

\* payg_converter.go:268-270
Skipped(conversion) == ~conversion.Success

\* The API calls of one iteration (payg_converter.go:276-279, 308-311).
VerifyCalls(conversion, r, at) ==
    << [op |-> "Instances.Get", zone |-> conversion.Instance.Zone,
        name |-> conversion.Instance.Name, at |-> at] >>
    \o IF ReachesDiskGet(r)
       THEN << [op |-> "Disks.Get", zone |-> conversion.Instance.Zone,
                name |-> DiskName(r.Disks), at |-> at] >>
       ELSE <<>>

\* The answers the API can give to one iteration, with the disk lists D
\* and the license lists L.
VerifyResponses(D, L) ==
    LET gets == { [NoVerifyResponse EXCEPT !.getErr = TRUE] }
                    \cup { [NoVerifyResponse EXCEPT !.Disks = d] : d \in D }
    IN  UNION { IF ReachesDiskGet(b)
                THEN { [b EXCEPT !.diskErr = TRUE] }
                         \cup { [b EXCEPT !.Licenses = l] : l \in L }
                ELSE {b} : b \in gets }

\* handleBYOStoPAYG hands the records to VerifyConversion, which pauses
\* before its loop (management.go:239, payg_converter.go:262-265).
CallVerifyConversion ==
    /\ pc = "converted"
    /\ pc' = "verify"
    /\ pauses' = Append(pauses, [seconds |-> LongPause, at |-> 0])
    /\ conversions' = results
    /\ vidx' = 1
    /\ vresps' = <<>>
    /\ calls' = <<>>
    /\ UNCHANGED <<instances, file, fresh, matchVars, convVars, listVars, uiVars, otherFile>>

\* One iteration of the loop (payg_converter.go:267-339).
VerifyIteration(D, L) ==
    /\ pc = "verify"
    /\ vidx <= Len(conversions)
    /\ LET conversion == conversions[vidx]
       IN  IF Skipped(conversion)
           THEN /\ vresps' = Append(vresps, NoVerifyResponse)
                /\ UNCHANGED <<conversions, calls>>
           ELSE \E r \in VerifyResponses(D, L) :
                    /\ vresps' = Append(vresps, r)
                    /\ calls' = calls \o VerifyCalls(conversion, r, vidx)
                    /\ conversions' =
                           [conversions EXCEPT ![vidx].NewOS = VerifiedOS(conversion, r)]
    /\ vidx' = vidx + 1
    /\ UNCHANGED <<instances, file, pc, fresh, matchVars, convVars, pauses, listVars, uiVars, otherFile>>

\* payg_converter.go:341
VerifyReturn ==
    /\ pc = "verify"
    /\ vidx > Len(conversions)
    /\ pc' = "verified"
    /\ UNCHANGED <<instances, file, fresh, matchVars, convVars, pauses, verVars, listVars, uiVars, otherFile>>

(***************************************************************************)
(* ListInstances                                                           *)
(***************************************************************************)
ZonesPrefix == <<"z", "o", "n", "e", "s", "/">>

\* strings.TrimPrefix
TrimPrefix(s, prefix) ==
    IF Len(s) >= Len(prefix) /\ SubSeq(s, 1, Len(prefix)) = prefix
    THEN SubSeq(s, Len(prefix) + 1, Len(s))
    ELSE s

\* compute.AttachedDisk, compute.NetworkInterface and compute.Instance as
\* far as ListInstances reads them.
AttachedDisk(interface, licenses) ==
    [Type |-> <<"PERSISTENT">>, Interface |-> interface, DiskSizeGb |-> 20,
     Licenses |-> licenses]

NetworkInterface(natIPs) ==
    [AccessConfigs |-> [k \in 1..Len(natIPs) |-> [NatIP |-> natIPs[k]]]]

ApiInstance(name, machineType, status, nics, disks) ==
    [Name |-> name, MachineType |-> machineType, Status |-> status,
     NetworkInterfaces |-> nics, Disks |-> disks]

\* ip (part_001:141-144)
ExternalIP(nics) ==
    IF Len(nics) > 0 /\ Len(nics[1].AccessConfigs) > 0
    THEN nics[1].AccessConfigs[1].NatIP
    ELSE <<>>

\* diskType (part_001:157-160)
BootDiskType(bootDisk) ==
    IF bootDisk.Interface # <<>>
    THEN bootDisk.Interface \o <<"-">> \o bootDisk.Type
    ELSE bootDisk.Type

\* licenseCodes of an instance: those of its first disk (part_001:146-181).
BootLicenseCodes(disks) ==
    IF Len(disks) > 0 THEN ListLicenseCodes(disks[1].Licenses) ELSE <<>>

\* The Instance appended for one API instance (part_001:132-194).
ListedInstance(zoneKey, instance, projectID) ==
    [Name |-> instance.Name,
     Zone |-> TrimPrefix(zoneKey, ZonesPrefix),
     MachineType |-> LastSegment(instance.MachineType),
     Status |-> instance.Status,
     IP |-> ExternalIP(instance.NetworkInterfaces),
     LicenseCodes |-> BootLicenseCodes(instance.Disks),
     DiskType |-> IF Len(instance.Disks) > 0
                  THEN BootDiskType(instance.Disks[1]) ELSE <<>>,
     DiskSizeGB |-> IF Len(instance.Disks) > 0
                    THEN instance.Disks[1].DiskSizeGb ELSE 0,
     Project |-> projectID]

\* The orders in which a range over the map page.Items can visit its keys
\* (part_001:124).
RangeOrders(items) ==
    { o \in [1..Cardinality(DOMAIN items) -> DOMAIN items] :
        \A a, b \in DOMAIN o : o[a] = o[b] => a = b }

\* The API instances the callback processes on one page, each with its
\* zone key, visiting the zones in the given order (part_001:124-132).
RECURSIVE PageRaws(_, _)
PageRaws(items, order) ==
    IF order = <<>> THEN <<>>
    ELSE LET zoneKey == order[1]
             instanceList == items[zoneKey]
         IN  (IF Len(instanceList) = 0 THEN <<>>
              ELSE [k \in 1..Len(instanceList) |->
                       [zoneKey |-> zoneKey, instance |-> instanceList[k]]])
             \o PageRaws(items, Tail(order))

\* Mutant: a failed page returns what the earlier pages gave.
ListFailure_Partial(acc) == acc

\* What ListInstances returns for the list when a page fails
\* (part_001:198-200).
ListFailure(acc) == <<>>

\* main calls ListInstances (part_000:41, part_001:115-118).
CallListInstances ==
    /\ pc = "idle"
    /\ pages # <<>>
    /\ pc' = "list"
    /\ page' = 1
    /\ instances' = <<>>
    /\ raws' = <<>>
    /\ listErr' = "none"
    /\ UNCHANGED <<file, fresh, matchVars, convVars, pauses, verVars, pages, uiVars, otherFile>>

\* req.Pages fetches one page and runs the callback on it, or fails
\* (part_001:122-200).
ListPage ==
    /\ pc = "list"
    /\ page <= Len(pages)
    /\ IF pages[page].fetchErr
       THEN /\ instances' = ListFailure(instances)
            /\ listErr' = "list"
            /\ pc' = "listed"
            /\ UNCHANGED <<page, raws>>
       ELSE \E order \in RangeOrders(pages[page].Items) :
                LET new == PageRaws(pages[page].Items, order)
                IN  /\ raws' = raws \o new
                    /\ instances' = instances \o
                           [k \in 1..Len(new) |->
                               ListedInstance(new[k].zoneKey, new[k].instance, ProjectID)]
                    /\ page' = page + 1
                    /\ UNCHANGED <<pc, listErr>>
    /\ UNCHANGED <<file, fresh, matchVars, convVars, pauses, verVars, pages, uiVars, otherFile>>

\* part_001:202
ListReturn ==
    /\ pc = "list"
    /\ page > Len(pages)
    /\ pc' = "listed"
    /\ UNCHANGED <<instances, file, fresh, matchVars, convVars, pauses, verVars, listVars, uiVars, otherFile>>

(***************************************************************************)
(* The management menu                                                     *)
(***************************************************************************)
Spaces == {" ", "\n", "\t", "\r"}

RECURSIVE TrimLeft(_)
TrimLeft(s) == IF s # <<>> /\ s[1] \in Spaces THEN TrimLeft(Tail(s)) ELSE s

RECURSIVE TrimRight(_)
TrimRight(s) ==
    IF s # <<>> /\ s[Len(s)] \in Spaces THEN TrimRight(SubSeq(s, 1, Len(s) - 1)) ELSE s

\* strings.TrimSpace
TrimSpace(s) == TrimRight(TrimLeft(s))

Digits == <<"0", "1", "2", "3", "4", "5", "6", "7", "8", "9">>

\* The value of a string of digits.
RECURSIVE DigitsValue(_)
DigitsValue(s) ==
    IF s = <<>> THEN 0
    ELSE 10 * DigitsValue(SubSeq(s, 1, Len(s) - 1))
            + (CHOOSE d \in 0..9 : Digits[d + 1] = s[Len(s)])

\* strconv.Atoi: an optional sign and digits; [err, value, negative].
Atoi(s) ==
    LET signed == s # <<>> /\ s[1] \in {"+", "-"}
        digits == IF signed THEN Tail(s) ELSE s
    IN  IF digits = <<>> \/ \E k \in 1..Len(digits) : \A d \in 1..10 : Digits[d] # digits[k]
        THEN [err |-> TRUE, value |-> 0, negative |-> FALSE]
        ELSE [err |-> FALSE, value |-> DigitsValue(digits),
              negative |-> signed /\ s[1] = "-" /\ DigitsValue(digits) # 0]

\* Mutant: option 4 shows the menu again without leaving it.
MenuTarget_RefreshStays(line) ==
    LET choice == Atoi(TrimSpace(line.text))
    IN  IF line.err \/ choice.err \/ choice.negative THEN "menu"
        ELSE IF choice.value = 0 THEN "exit"
        ELSE IF choice.value = 1 THEN "start"
        ELSE IF choice.value = 2 THEN "stop"
        ELSE IF choice.value = 3 THEN "byos"
        ELSE IF choice.value = 5 THEN "export"
        ELSE "menu"

\* Where the menu goes with the line read (management.go:61-95).
MenuTarget(line) ==
    LET choice == Atoi(TrimSpace(line.text))
    IN  IF line.err \/ choice.err \/ choice.negative THEN "menu"
        ELSE IF choice.value = 0 THEN "exit"
        ELSE IF choice.value = 1 THEN "start"
        ELSE IF choice.value = 2 THEN "stop"
        ELSE IF choice.value = 3 THEN "byos"
        ELSE IF choice.value = 4 THEN "refresh"
        ELSE IF choice.value = 5 THEN "export"
        ELSE "menu"

\* What the menu prints for the line read (management.go:63, 70, 87, 93).
MenuMessage(line) ==
    IF line.err THEN "Error reading input"
    ELSE IF Atoi(TrimSpace(line.text)).err THEN "Please enter a number"
    ELSE IF MenuTarget(line) = "menu" THEN "Invalid choice"
    ELSE IF MenuTarget(line) = "refresh" THEN "Refreshing instance list..."
    ELSE ""

\* One reading of the menu (management.go:50-96).
ManageInstances(lines) ==
    /\ pc = "menu"
    /\ \E line \in lines :
           /\ input' = line
           /\ pc' = MenuTarget(line)
           /\ console' = MenuMessage(line)
    /\ UNCHANGED <<instances, file, fresh, matchVars, convVars, pauses, verVars,
                   listVars, otherFile, selection, answer, mutations>>

\* SelectInstance (management.go:17-45): [err, index], index 0 for none.
SelectInstance(list, line) ==
    LET choice == Atoi(TrimSpace(line.text))
    IN  IF line.err \/ choice.err THEN [err |-> TRUE, index |-> 0]
        ELSE IF choice.value = 0 THEN [err |-> FALSE, index |-> 0]
        ELSE IF choice.negative \/ choice.value > Len(list) THEN [err |-> TRUE, index |-> 0]
        ELSE [err |-> FALSE, index |-> choice.value]

\* The body handleStartInstance and handleStopInstance share
\* (management.go:100-139), with the request StartInstance or StopInstance
\* sends (part_001:206-225).
HandlePower(op, lines) ==
    /\ \E line \in lines :
           LET selected == SelectInstance(instances, line)
           IN  /\ selection' = line
               /\ IF selected.err \/ selected.index = 0
                  THEN /\ mutations' = mutations
                       /\ console' = IF selected.err THEN "Error" ELSE ""
                  ELSE /\ mutations' =
                              Append(mutations,
                                     [op |-> op,
                                      project |-> instances[selected.index].Project,
                                      zone |-> instances[selected.index].Zone,
                                      name |-> instances[selected.index].Name])
                       /\ console' = op
    /\ pc' = "refresh"
    /\ UNCHANGED <<instances, file, fresh, matchVars, convVars, pauses, verVars,
                   listVars, otherFile, input, answer>>

\* management.go:100-118
handleStartInstance(lines) ==
    /\ pc = "start"
    /\ HandlePower("Instances.Start", lines)

\* management.go:121-139
handleStopInstance(lines) ==
    /\ pc = "stop"
    /\ HandlePower("Instances.Stop", lines)

\* What a failed os.WriteFile can leave of the file: the file as it was,
\* an empty file, a part of the document (export.go:44-46).
WriteFailures(f) == {f, FileOf(<<>>), FileMalformed}

\* management.go:178
NothingToExport(list) == Len(list) = 0

\* handleExportInstances (management.go:177-190).
handleExportInstances ==
    /\ pc = "export"
    /\ \/ /\ NothingToExport(instances)
          /\ console' = "No instances to export."
          /\ UNCHANGED <<file, otherFile, fresh>>
       \/ /\ ~NothingToExport(instances)
          /\ file' = Exported(instances, ProjectID)[ExportFilename(ProjectID)]
          /\ otherFile' = Exported(instances, ProjectID)[ExportFilename(OtherProject)]
          /\ fresh' = TRUE
          /\ console' = "Instances exported"
       \/ /\ ~NothingToExport(instances)
          /\ file' \in WriteFailures(file)
          /\ fresh' = FALSE
          /\ console' = "Error exporting instances"
          /\ UNCHANGED otherFile
    /\ pc' = "menu"
    /\ UNCHANGED <<instances, matchVars, convVars, pauses, verVars, listVars,
                   input, selection, answer, mutations>>

\* handleBYOStoPAYG returns on an error of the reconciliation
\* (management.go:198-202).
ReconciliationFailed ==
    /\ pc = "checked"
    /\ err # "none"
    /\ pc' = "refresh"
    /\ console' = "Error"
    /\ UNCHANGED <<instances, file, fresh, matchVars, convVars, pauses, verVars,
                   listVars, otherFile, input, selection, answer, mutations>>

\* Mutant: any answer that begins with y taken for a yes.
Confirmed_Prefix(line) ==
    TrimSpace(line.text) # <<>> /\ ToLower(TrimSpace(line.text))[1] = "y"

\* management.go:223-224
Confirmed(line) == ToLower(TrimSpace(line.text)) = <<"y">>

\* The confirmation of handleBYOStoPAYG and, on a yes, the call of
\* ConvertToPAYG (management.go:214-231).
ConfirmConversion(lines) ==
    /\ pc = "checked"
    /\ err = "none"
    /\ \E line \in lines :
           /\ answer' = line
           /\ IF ~line.err /\ Confirmed(line)
              THEN /\ ConvertToPAYG
                   /\ console' = "Converting instances to PAYG licensing..."
              ELSE /\ pc' = "refresh"
                   /\ console' = IF line.err THEN "Error reading input"
                                  ELSE "Conversion cancelled."
                   /\ UNCHANGED <<instances, file, fresh, matchVars, convVars, pauses,
                                  verVars, listVars, otherFile>>
    /\ UNCHANGED <<input, selection, mutations>>

\* The results are shown and Enter is awaited (management.go:241-264).
PressEnter ==
    /\ pc = "verified"
    /\ pc' = "refresh"
    /\ console' = "Conversion Results"
    /\ UNCHANGED <<instances, file, fresh, matchVars, convVars, pauses, verVars,
                   listVars, otherFile, input, selection, answer, mutations>>

\* The loop of main lists the instances again, or ends the process when
\* the listing fails; what the command before read, matched, sent and
\* recorded is gone (part_000:39-52).
main(lists) ==
    /\ pc = "refresh"
    /\ \/ /\ pc' = "fatal"
          /\ UNCHANGED instances
       \/ /\ pc' = "menu"
          /\ instances' \in lists
    /\ fresh' = FALSE
    /\ matchedInstances' = <<>>
    /\ missingInstances' = <<>>
    /\ err' = "none"
    /\ idx' = 0
    /\ results' = <<>>
    /\ patches' = <<>>
    /\ resps' = <<>>
    /\ run' = 0
    /\ pauses' = <<>>
    /\ conversions' = <<>>
    /\ vidx' = 0
    /\ vresps' = <<>>
    /\ calls' = <<>>
    /\ input' = NoLine
    /\ selection' = NoLine
    /\ answer' = NoLine
    /\ mutations' = <<>>
    /\ console' = ""
    /\ UNCHANGED <<file, otherFile, prevResults, prevPatches, prevResps, listVars>>

(***************************************************************************)
(* Data of the conversion models.                                          *)
(***************************************************************************)
DiskOf(source) == [Source |-> source]

DiskLists ==
    { <<>>,
      << DiskOf(<<>>) >>,
      << DiskOf(<<"x", "/">>) >>,
      << DiskOf(<<"p", "/", "d">>), DiskOf(<<"e">>) >> }

SourceImages ==
    { <<>>, <<"R", "H", "E", "L", "-", "8", "-", "v">>, <<"d", "e", "b">> }

StatusCodes == {199, 200, 299, 300}

ConvInstances ==
    { Instance(<<"a">>, <<"z">>, "RUNNING", <<Rhel8Code>>),
      Instance(<<"b">>, <<"y">>, "TERMINATED", <<Rhel9Upper>>),
      Instance(<<"c">>, <<"z">>, "TERMINATED", <<>>),
      Instance(<<"d">>, <<"y">>, "RUNNING", <<SlesCode>>),
      Instance(<<"e">>, <<"z">>, "RUNNING", <<Rhel9Code, Rhel8Code>>),
      Instance(<<"f">>, <<"y">>, "RUNNING", <<RhelDash, Eight>>) }

\* The list without its repetitions, in the order of first occurrence.
RECURSIVE Distinct(_)
Distinct(list) ==
    IF list = <<>> THEN <<>>
    ELSE LET rest == Distinct(SubSeq(list, 1, Len(list) - 1))
             last == list[Len(list)]
         IN  IF \E k \in 1..Len(rest) : rest[k] = last THEN rest ELSE Append(rest, last)

(***************************************************************************)
(* The conversion model: ConvertToPAYG over any list of live instances,    *)
(* as a reconciliation hands it over.                                      *)
(***************************************************************************)
InitConvert ==
    /\ matchedInstances \in SeqsOf(ConvInstances, 1, MaxBatch)
    /\ instances = Distinct(matchedInstances)
    /\ file = WrittenFile(matchedInstances)
    /\ pc = "convert"
    /\ fresh = FALSE
    /\ missingInstances = <<>>
    /\ err = "none"
    /\ idx = 1
    /\ results = <<>>
    /\ patches = <<>>
    /\ resps = <<>>
    /\ run = 1
    /\ prevResults = <<>>
    /\ prevPatches = <<>>
    /\ prevResps = <<>>
    /\ pauses = <<>>
    /\ conversions = <<>>
    /\ vidx = 0
    /\ vresps = <<>>
    /\ calls = <<>>
    /\ NoListing
    /\ NoInput

NextConvert ==
    \/ ConvertIteration(DiskLists, SourceImages, StatusCodes, {TRUE})
    \/ ConvertReturn

SpecConvert == InitConvert /\ [][NextConvert]_vars

(***************************************************************************)
(* The convert workflow: export, reconciliation, conversion of the matched *)
(* list.                                                                   *)
(***************************************************************************)
FlowInstances ==
    { i \in ConvInstances : i.Name \in { <<"a">>, <<"c">>, <<"d">> } }

FlowRecords ==
    { ExportRecord(i) : i \in FlowInstances }
        \cup { InstanceExport(<<"A">>, <<"z">>, "e2", "RUNNING", <<>>) }

Init ==
    /\ instances \in LiveLists(FlowInstances, MaxLive)
    /\ file \in FileStates(FlowRecords, MaxFile)
    /\ pc = "idle"
    /\ fresh = FALSE
    /\ matchedInstances = <<>>
    /\ missingInstances = <<>>
    /\ err = "none"
    /\ NoConversion

Next ==
    \/ ExportInstancesToYAML
    \/ CheckInstancesFromFile
    \/ CallConvertToPAYG
    \/ ConvertIteration(DiskLists, SourceImages, StatusCodes, {TRUE})
    \/ ConvertReturn

Spec == Init /\ [][Next]_vars

(***************************************************************************)
(* Two runs of ConvertToPAYG over the same list, the API answering each    *)
(* run as it likes.                                                        *)
(***************************************************************************)
PairInstances == { i \in ConvInstances : i.Name \in { <<"a">>, <<"d">> } }

PairDiskLists == { d \in DiskLists : Len(d) # 1 }

PairStatusCodes == {200, 300}

InitPair ==
    /\ matchedInstances \in SeqsOf(PairInstances, 1, MaxBatch)
    /\ instances = Distinct(matchedInstances)
    /\ file = WrittenFile(matchedInstances)
    /\ pc = "convert"
    /\ fresh = FALSE
    /\ missingInstances = <<>>
    /\ err = "none"
    /\ idx = 1
    /\ results = <<>>
    /\ patches = <<>>
    /\ resps = <<>>
    /\ run = 1
    /\ prevResults = <<>>
    /\ prevPatches = <<>>
    /\ prevResps = <<>>
    /\ pauses = <<>>
    /\ conversions = <<>>
    /\ vidx = 0
    /\ vresps = <<>>
    /\ calls = <<>>
    /\ NoListing
    /\ NoInput

NextPair ==
    \/ ConvertIteration(PairDiskLists, SourceImages, PairStatusCodes, {TRUE})
    \/ ConvertReturn
    \/ ConvertAgain

SpecPair == InitPair /\ [][NextPair]_vars

(***************************************************************************)
(* Conversion, then verification of the records.                           *)
(***************************************************************************)
MaxLicenses == 2    \* license URLs on a disk

\* License URLs: v1/p/rc/g/l/rhel-8 (six segments), c/v1/p/rc/g/l/rhel-9
\* (seven), p/rc/g/l/rhel-8 (five), l/rhel-9, rhel-8/, v1/p/rc/g/l/ (six, the
\* last one empty), the empty URL and "/".
UrlOf(segments) == Join(segments, <<"/">>)

Rhel8URL == UrlOf(<< <<"v", "1">>, <<"p">>, <<"r", "c">>, <<"g">>, <<"l">>, Rhel8Code >>)
Rhel9URL == UrlOf(<< <<"c">>, <<"v", "1">>, <<"p">>, <<"r", "c">>, <<"g">>, <<"l">>, Rhel9Code >>)
ShortURL == UrlOf(<< <<"l">>, Rhel9Code >>)

LicenseURLs ==
    { Rhel8URL, Rhel9URL, ShortURL, <<>>, <<"/">>,
      UrlOf(<< <<"p">>, <<"r", "c">>, <<"g">>, <<"l">>, Rhel8Code >>),
      UrlOf(<< Rhel8Code, <<>> >>),
      UrlOf(<< <<"v", "1">>, <<"p">>, <<"r", "c">>, <<"g">>, <<"l">>, <<>> >>) }

\* What the disk of a verified instance may hold.
VerifyLicenseLists ==
    { <<>>, <<Rhel8URL>>, <<ShortURL>>, <<Rhel9URL, Rhel8URL>> }

VerifyInstances ==
    { i \in ConvInstances : i.Name \in { <<"a">>, <<"b">>, <<"d">>, <<"e">> } }

InitVerify ==
    /\ matchedInstances \in SeqsOf(VerifyInstances, 1, MaxBatch)
    /\ instances = Distinct(matchedInstances)
    /\ file = WrittenFile(matchedInstances)
    /\ pc = "convert"
    /\ fresh = FALSE
    /\ missingInstances = <<>>
    /\ err = "none"
    /\ idx = 1
    /\ results = <<>>
    /\ patches = <<>>
    /\ resps = <<>>
    /\ run = 1
    /\ prevResults = <<>>
    /\ prevPatches = <<>>
    /\ prevResps = <<>>
    /\ pauses = <<>>
    /\ conversions = <<>>
    /\ vidx = 0
    /\ vresps = <<>>
    /\ calls = <<>>
    /\ NoListing
    /\ NoInput

NextVerify ==
    \/ ConvertIteration(PairDiskLists, {<<>>}, PairStatusCodes, BOOLEAN)
    \/ ConvertReturn
    \/ CallVerifyConversion
    \/ VerifyIteration(DiskLists, VerifyLicenseLists)
    \/ VerifyReturn

SpecVerify == InitVerify /\ [][NextVerify]_vars

(***************************************************************************)
(* The listing: the pages of the aggregated list, any of which may fail.   *)
(***************************************************************************)
MaxPages == 2       \* pages of the aggregated list

ZoneKeys == { ZonesPrefix \o <<"z">>, ZonesPrefix \o <<"y">> }

MachineTypeURL == <<"z", "/", "m", "/", "e", "2">>

\* An instance without disks and one with two disks and an external IP.
Diskless == ApiInstance(<<"a">>, MachineTypeURL, "TERMINATED", <<>>, <<>>)
TwoDisks ==
    ApiInstance(<<"b">>, <<"e", "2">>, "RUNNING", << NetworkInterface(<< <<"i", "p">> >>) >>,
                << AttachedDisk(<<"SCSI">>, <<Rhel8URL, ShortURL>>),
                   AttachedDisk(<<>>, <<Rhel9URL>>) >>)

\* An instance whose boot disk holds the given license URLs.
Licensed(licenses) ==
    ApiInstance(<<"c">>, MachineTypeURL, "RUNNING", << NetworkInterface(<<>>) >>,
                << AttachedDisk(<<>>, licenses) >>)

FailedPage == [fetchErr |-> TRUE, Items |-> EmptyMap]
PageOf(items) == [fetchErr |-> FALSE, Items |-> items]

\* The pages of the paging model: every zone key present or not, with none,
\* one or both of the two instances.
ListPages ==
    LET lists == { <<>>, <<Diskless>>, <<TwoDisks>>, <<Diskless, TwoDisks>> }
    IN  {FailedPage} \cup
        UNION { { PageOf(items) : items \in [keys -> lists] } : keys \in SUBSET ZoneKeys }

\* One page with one instance, for every list of license URLs.
LicensePages ==
    { << PageOf([key \in {ZonesPrefix \o <<"z">>} |-> <<Licensed(l)>>]) >> :
        l \in SeqsOf(LicenseURLs, 0, MaxLicenses) }

InitList ==
    /\ pages \in SeqsOf(ListPages, 1, MaxPages) \cup LicensePages
    /\ page = 0
    /\ raws = <<>>
    /\ listErr = "none"
    /\ NoInput
    /\ instances = <<>>
    /\ file = FileAbsent
    /\ pc = "idle"
    /\ fresh = FALSE
    /\ matchedInstances = <<>>
    /\ missingInstances = <<>>
    /\ err = "none"
    /\ idx = 0
    /\ results = <<>>
    /\ patches = <<>>
    /\ resps = <<>>
    /\ run = 0
    /\ prevResults = <<>>
    /\ prevPatches = <<>>
    /\ prevResps = <<>>
    /\ pauses = <<>>
    /\ conversions = <<>>
    /\ vidx = 0
    /\ vresps = <<>>
    /\ calls = <<>>

NextList ==
    \/ CallListInstances
    \/ ListPage
    \/ ListReturn

SpecList == InitList /\ [][NextList]_vars

(***************************************************************************)
(* The console: the menu, its commands and the listing after them.         *)
(***************************************************************************)
MenuInstances == { i \in ConvInstances : i.Name \in { <<"a">>, <<"d">> } }

MenuRecords ==
    { ExportRecord(i) : i \in MenuInstances }
        \cup { InstanceExport(<<"A">>, <<"z">>, "e2", "RUNNING", <<>>) }

LinesOf(texts) == {ReadFailed} \cup { Line(t \o <<"\n">>) : t \in texts }

MenuLines ==
    LinesOf({ <<"0">>, <<"1">>, <<"2">>, <<"3">>, <<"4">>, <<"5">>, <<"7">>,
              <<"0", "3">>, <<" ", "5", " ">>, <<"-", "1">>, <<"x">>, <<>> })

SelectLines == LinesOf({ <<"0">>, <<"1">>, <<"2">>, <<"3">>, <<"x">> })

ConfirmLines ==
    LinesOf({ <<"y">>, <<"Y">>, <<" ", "y", "\t">>, <<"y", "e", "s">>, <<"n">>, <<>> })

InitMenu ==
    /\ instances = <<>>
    /\ file \in FileStates(MenuRecords, MaxFile)
    /\ pc = "refresh"
    /\ fresh = FALSE
    /\ matchedInstances = <<>>
    /\ missingInstances = <<>>
    /\ err = "none"
    /\ NoConversion

NextMenu ==
    \/ main(LiveLists(MenuInstances, MaxLive))
    \/ ManageInstances(MenuLines)
    \/ handleStartInstance(SelectLines)
    \/ handleStopInstance(SelectLines)
    \/ handleExportInstances
    \/ CheckInstancesFromFile
    \/ ReconciliationFailed
    \/ ConfirmConversion(ConfirmLines)
    \/ ConvertIteration(PairDiskLists, {<<>>}, PairStatusCodes, {TRUE})
    \/ ConvertReturn
    \/ CallVerifyConversion
    \/ VerifyIteration(PairDiskLists, {<<>>, <<Rhel8URL>>})
    \/ VerifyReturn
    \/ PressEnter

SpecMenu == InitMenu /\ [][NextMenu]_vars

(***************************************************************************)
(* Properties of the reconciliation.                                       *)
(***************************************************************************)
\* Some live instance has the record's zone and the record's name.
HasLive(r) ==
    \E k \in 1..Len(instances) :
        instances[k].Zone = r.zone /\ instances[k].Name = r.name

\* The live instance with the record's zone and name.
LiveOf(r) ==
    CHOOSE i \in { instances[k] : k \in 1..Len(instances) } :
        i.Zone = r.zone /\ i.Name = r.name

Checked == pc = "checked" /\ file.kind = "ok"

\* C1: a record of the export file contributes a matched entry only if some
\* live instance has the same zone and the same name, each compared exactly
\* and case-sensitively; a record whose (zone, name) pair is absent from the
\* live list is in the reported missing list and has no matched entry.
C1_ExactPairMatch ==
    Checked =>
        /\ \A k \in 1..Len(file.recs) :
               ~HasLive(file.recs[k]) =>
                   /\ \E j \in 1..Len(missingInstances) :
                          missingInstances[j] = RecordKey(file.recs[k])
                   /\ \A j \in 1..Len(matchedInstances) :
                          ~(/\ matchedInstances[j].Zone = file.recs[k].zone
                            /\ matchedInstances[j].Name = file.recs[k].name)
        /\ Len(matchedInstances)
               = Cardinality({ k \in 1..Len(file.recs) : HasLive(file.recs[k]) })
        /\ Len(missingInstances)
               = Cardinality({ k \in 1..Len(file.recs) : ~HasLive(file.recs[k]) })

\* A record differing from a live instance only by the case of its name is
\* reported missing beside a record that matched.
C1_Witness ==
    /\ Checked
    /\ Len(matchedInstances) = 1
    /\ Len(missingInstances) = 1
    /\ \E k \in 1..Len(file.recs) : \E j \in 1..Len(instances) :
           /\ ~HasLive(file.recs[k])
           /\ file.recs[k].zone = instances[j].Zone
           /\ file.recs[k].name # instances[j].Name
           /\ ToLower(file.recs[k].name) = ToLower(instances[j].Name)

\* The matched list the records call for, in file order.
RECURSIVE ExpectedMatched(_)
ExpectedMatched(recs) ==
    IF recs = <<>> THEN <<>>
    ELSE IF HasLive(recs[1])
         THEN <<LiveOf(recs[1])>> \o ExpectedMatched(Tail(recs))
         ELSE ExpectedMatched(Tail(recs))

\* The missing keys the records call for, in file order.
RECURSIVE ExpectedMissing(_)
ExpectedMissing(recs) ==
    IF recs = <<>> THEN <<>>
    ELSE IF HasLive(recs[1])
         THEN ExpectedMissing(Tail(recs))
         ELSE <<recs[1].zone \o <<"/">> \o recs[1].name>> \o ExpectedMissing(Tail(recs))

\* C2: the matched output is, in the order of the file, the live instance
\* of each record that has one (with the live status, license identifiers
\* and project, not the file's values); every record is in exactly one of
\* the matched and the missing list, in file order.
C2_MatchedInFileOrder ==
    Checked =>
        /\ matchedInstances = ExpectedMatched(file.recs)
        /\ missingInstances = ExpectedMissing(file.recs)
        /\ Len(matchedInstances) + Len(missingInstances) = Len(file.recs)
        /\ \A j \in 1..Len(matchedInstances) :
               \E k \in 1..Len(instances) : matchedInstances[j] = instances[k]

\* Two records matched in the reverse of the live order, one of them a
\* stopped, licensed instance that the file lists as running and unlicensed.
C2_Witness ==
    /\ Checked
    /\ Len(instances) = 2
    /\ matchedInstances = <<instances[2], instances[1]>>
    /\ matchedInstances[1].Status = "TERMINATED"
    /\ file.recs[1].status = "RUNNING"
    /\ matchedInstances[1].LicenseCodes # file.recs[1].licenses

NoRecordMatches == \A k \in 1..Len(file.recs) : ~HasLive(file.recs[k])

\* C3 as stated: an error only when the file does not exist, cannot be
\* parsed, or no record matches, each with its own error value; otherwise a
\* non-empty matched list and no error.
C3_ThreeErrorsOnly ==
    pc = "checked" =>
        /\ err \in {"none", "notfound", "parse", "nomatch"}
        /\ (err = "notfound") <=> (file.kind = "absent")
        /\ (err = "parse") <=> (file.kind = "malformed")
        /\ (err = "nomatch") <=> (file.kind = "ok" /\ NoRecordMatches)
        /\ (err = "none") => matchedInstances # <<>>

\* C3 amended: a fourth error, of its own value, when the file exists but
\* cannot be read; unmatched records alone never fail the reconciliation.
C3_FourErrorsOnly ==
    pc = "checked" =>
        /\ err \in {"none", "notfound", "read", "parse", "nomatch"}
        /\ (err = "notfound") <=> (file.kind = "absent")
        /\ (err = "read") <=> (file.kind = "unreadable")
        /\ (err = "parse") <=> (file.kind = "malformed")
        /\ (err = "nomatch") <=> (file.kind = "ok" /\ NoRecordMatches)
        /\ (err = "none") => matchedInstances # <<>>
        /\ (err # "none") => matchedInstances = <<>>

\* The file exists and cannot be read: the read error is returned.
C3_Witness ==
    /\ pc = "checked"
    /\ file.kind = "unreadable"
    /\ err = "read"
    /\ instances # <<>>

\* C4 as stated: export of any live list, then reconciliation against the
\* same list, succeeds with the whole list matched in order, none missing.
C4_RoundTrip ==
    (pc = "checked" /\ fresh) =>
        /\ err = "none"
        /\ matchedInstances = instances
        /\ missingInstances = <<>>

\* C4 amended: so for every non-empty live list; the export of an empty
\* list reconciles to the zero-match error.
C4_RoundTripNonEmpty ==
    (pc = "checked" /\ fresh) =>
        /\ missingInstances = <<>>
        /\ instances # <<>> => (err = "none" /\ matchedInstances = instances)
        /\ instances = <<>> => (err = "nomatch" /\ matchedInstances = <<>>)

\* A list of two instances, exported over a file that held something else,
\* then reconciled.
C4_Witness ==
    /\ pc = "checked"
    /\ fresh
    /\ Len(instances) = 2
    /\ matchedInstances = instances
    /\ instances[1].Status # instances[2].Status

(***************************************************************************)
(* Properties of the conversion.                                           *)
(***************************************************************************)
SameIdentity(a, b) == a.Zone = b.Zone /\ a.Name = b.Name

\* The requests sent by the iteration at position k.
PatchesAt(ps, k) == SelectSeq(ps, LAMBDA p : p.at = k)

\* C5: in one reconciliation followed by one conversion every matched
\* instance, identified by (zone, name), has exactly one conversion record
\* and at most one patch request, and the records follow the matched list
\* in length and order.
C5_AttemptedOnce ==
    pc = "converted" =>
        /\ Len(results) = Len(matchedInstances)
        /\ \A k \in 1..Len(results) : results[k].Instance = matchedInstances[k]
        /\ \A k \in 1..Len(matchedInstances) :
               /\ Cardinality({ j \in 1..Len(results) :
                       SameIdentity(results[j].Instance, matchedInstances[k]) }) = 1
               /\ Cardinality({ j \in 1..Len(patches) :
                       SameIdentity(matchedInstances[patches[j].at], matchedInstances[k]) }) <= 1

\* C6: of two runs over the same list, the record and the patch requests
\* of every instance that got the same API answers in both runs are the
\* same in both, whatever the other instances were answered; every
\* instance is attempted in both runs.
C6_Independent ==
    (pc = "converted" /\ run = 2) =>
        /\ Len(results) = Len(matchedInstances)
        /\ Len(prevResults) = Len(matchedInstances)
        /\ \A b \in 1..Len(matchedInstances) :
               resps[b] = prevResps[b] =>
                   /\ results[b] = prevResults[b]
                   /\ PatchesAt(patches, b) = PatchesAt(prevPatches, b)

\* The first instance converted in the first run and failed in the second;
\* the second instance, answered alike, converted in both.
C6_Witness ==
    /\ pc = "converted"
    /\ run = 2
    /\ Len(matchedInstances) = 2
    /\ prevResults[1].Success
    /\ ~results[1].Success
    /\ resps[2] = prevResps[2]
    /\ results[2].Success
    /\ Len(PatchesAt(patches, 2)) = 1

\* The marker is part of one of the identifiers, whatever the case.
HasMarker(codes, marker) ==
    \E j \in 1..Len(codes) : Contains(ToLower(codes[j]), marker)

\* The instance was fetched and its first disk has a name.
NamedBootDisk(r) ==
    /\ ~r.getErr
    /\ Len(r.Disks) > 0
    /\ r.Disks[1].Source # <<>>
    /\ r.Disks[1].Source[Len(r.Disks[1].Source)] # "/"

Converted == pc \in {"convert", "converted"}

\* C7: an instance with license identifiers of which none holds the rhel-8
\* or the rhel-9 marker ends Failed, with no patch request and no target.
C7_UnknownLicenseFails ==
    Converted =>
        \A k \in 1..Len(results) :
            LET codes == matchedInstances[k].LicenseCodes
            IN  (/\ codes # <<>>
                 /\ ~HasMarker(codes, Rhel8Marker)
                 /\ ~HasMarker(codes, Rhel9Marker)) =>
                    /\ ~results[k].Success
                    /\ PatchesAt(patches, k) = <<>>
                    /\ results[k].ConversionURL = <<>>
                    /\ results[k].NewOS = <<>>

\* An instance whose identifiers "rhel-" and "8" hold no marker was fetched
\* with a named boot disk and failed.
C7_Witness ==
    /\ Converted
    /\ \E k \in 1..Len(results) :
           /\ matchedInstances[k].LicenseCodes = <<RhelDash, Eight>>
           /\ NamedBootDisk(resps[k])
           /\ ~results[k].Success
           /\ PatchesAt(patches, k) = <<>>

\* The target of an instance without license identifiers.
ExpectedLookupTarget(r) ==
    IF ~r.diskErr /\ Contains(ToLower(r.SourceImage), Rhel8Marker)
    THEN Rhel8Server ELSE Rhel9Server

\* C8 as stated: an instance without license identifiers that was fetched
\* with a named boot disk always gets a patch request, for rhel-8-server
\* when the disk lookup succeeds and the source image holds "rhel-8" in any
\* case, for rhel-9-server otherwise.
C8_ZeroLicensesAlwaysPatched ==
    Converted =>
        \A k \in 1..Len(results) :
            (matchedInstances[k].LicenseCodes = <<>> /\ NamedBootDisk(resps[k])) =>
                /\ Len(PatchesAt(patches, k)) = 1
                /\ PatchesAt(patches, k)[1].body.licenses = <<ExpectedLookupTarget(resps[k])>>

\* C8 amended: such an instance always passes the classification with that
\* target; the patch request is sent unless the HTTP client cannot be
\* created, in which case the record is Failed and nothing is sent.
C8_ZeroLicensesClassified ==
    Converted =>
        \A k \in 1..Len(results) :
            (matchedInstances[k].LicenseCodes = <<>> /\ NamedBootDisk(resps[k])) =>
                /\ results[k].ConversionURL # <<>>
                /\ ~resps[k].clientErr =>
                       /\ Len(PatchesAt(patches, k)) = 1
                       /\ PatchesAt(patches, k)[1].body.licenses
                              = <<ExpectedLookupTarget(resps[k])>>
                /\ resps[k].clientErr =>
                       /\ PatchesAt(patches, k) = <<>>
                       /\ ~results[k].Success

\* An instance without identifiers whose disk has an upper-case RHEL-8
\* source image is patched to rhel-8-server.
C8_Witness ==
    /\ Converted
    /\ \E k \in 1..Len(results) :
           /\ matchedInstances[k].LicenseCodes = <<>>
           /\ NamedBootDisk(resps[k])
           /\ ~resps[k].diskErr
           /\ resps[k].SourceImage # ToLower(resps[k].SourceImage)
           /\ Len(PatchesAt(patches, k)) = 1
           /\ PatchesAt(patches, k)[1].body.licenses = <<Rhel8Server>>

\* The iteration at k got as far as client.Do.
Requested(k) == NamedBootDisk(resps[k]) /\ ~resps[k].clientErr

\* C9 as stated: identifiers holding the rhel-8 marker give rhel-8-server,
\* identifiers holding the rhel-9 marker give rhel-9-server.
C9_EachMarkerItsTarget ==
    Converted =>
        \A k \in 1..Len(results) :
            LET codes == matchedInstances[k].LicenseCodes
            IN  (codes # <<>> /\ Requested(k)) =>
                    /\ HasMarker(codes, Rhel8Marker) =>
                           /\ Len(PatchesAt(patches, k)) = 1
                           /\ PatchesAt(patches, k)[1].body.licenses = <<Rhel8Server>>
                    /\ HasMarker(codes, Rhel9Marker) =>
                           /\ Len(PatchesAt(patches, k)) = 1
                           /\ PatchesAt(patches, k)[1].body.licenses = <<Rhel9Server>>

\* C9 amended: the rhel-8 marker is searched first; identifiers holding it
\* give rhel-8-server, identifiers holding the rhel-9 marker and not the
\* rhel-8 marker give rhel-9-server.
C9_Rhel8First ==
    Converted =>
        \A k \in 1..Len(results) :
            LET codes == matchedInstances[k].LicenseCodes
            IN  (codes # <<>> /\ Requested(k)) =>
                    /\ HasMarker(codes, Rhel8Marker) =>
                           /\ Len(PatchesAt(patches, k)) = 1
                           /\ PatchesAt(patches, k)[1].body.licenses = <<Rhel8Server>>
                    /\ (HasMarker(codes, Rhel9Marker) /\ ~HasMarker(codes, Rhel8Marker)) =>
                           /\ Len(PatchesAt(patches, k)) = 1
                           /\ PatchesAt(patches, k)[1].body.licenses = <<Rhel9Server>>

\* An instance with the upper-case identifier RHEL-9 is patched to
\* rhel-9-server and one with both markers to rhel-8-server.
C9_Witness ==
    /\ Converted
    /\ \E k, j \in 1..Len(results) :
           /\ matchedInstances[k].LicenseCodes = <<Rhel9Upper>>
           /\ Len(PatchesAt(patches, k)) = 1
           /\ PatchesAt(patches, k)[1].body.licenses = <<Rhel9Server>>
           /\ HasMarker(matchedInstances[j].LicenseCodes, Rhel9Marker)
           /\ Len(PatchesAt(patches, j)) = 1
           /\ PatchesAt(patches, j)[1].body.licenses = <<Rhel8Server>>

\* The part of the disk's source reference after its last "/".
RECURSIVE AfterLastSlash(_)
AfterLastSlash(s) ==
    IF \E k \in 1..Len(s) : s[k] = "/" THEN AfterLastSlash(Tail(s)) ELSE s

\* C10: every patch request is a PATCH of the first attached disk of its
\* instance, in the instance's project and zone, with a body whose license
\* list is the one derived target URL; a record is a Success exactly when
\* its request came back without transport error and with a status of
\* 200..299.
C10_PatchAddressedToBootDisk ==
    Converted =>
        /\ \A j \in 1..Len(patches) :
               LET p == patches[j]
                   instance == matchedInstances[p.at]
                   disk == AfterLastSlash(resps[p.at].Disks[1].Source)
               IN  /\ p.method = "PATCH"
                   /\ p.url = <<"https://www.googleapis.com/compute/alpha/projects/",
                                instance.Project, "/zones/">> \o instance.Zone
                                  \o <<"/disks/">> \o disk \o <<"?paths=licenses">>
                   /\ p.body.name = disk
                   /\ Len(p.body.licenses) = 1
                   /\ p.body.licenses[1] \in {Rhel8Server, Rhel9Server}
                   /\ Len(PatchesAt(patches, p.at)) = 1
        /\ \A k \in 1..Len(results) :
               results[k].Success <=>
                   /\ Len(PatchesAt(patches, k)) = 1
                   /\ ~resps[k].doErr
                   /\ resps[k].StatusCode \in 200..299

\* Two instances of different zones patched, each on its own boot disk, one
\* answered 299 and one 300.
C10_Witness ==
    /\ Converted
    /\ Len(patches) = 2
    /\ matchedInstances[1].Zone # matchedInstances[2].Zone
    /\ Len(resps[1].Disks) = 2
    /\ resps[1].StatusCode = 299
    /\ results[1].Success
    /\ resps[2].StatusCode = 300
    /\ ~results[2].Success

\* The instance could not be fetched, or has no disk, or the source
\* reference of its first disk is empty or ends with "/".
NoBootDiskName(r) ==
    \/ r.getErr
    \/ Len(r.Disks) = 0
    \/ r.Disks[1].Source = <<>>
    \/ r.Disks[1].Source[Len(r.Disks[1].Source)] = "/"

\* C11: an instance whose detail cannot be fetched, that has no disk, or
\* whose boot disk name cannot be extracted gets a Failed record and no
\* patch request, and the loop goes on: the next instance is attempted, and
\* on return every instance of the list has its record.
C11_NoDiskNameFailsAndContinues ==
    Converted =>
        /\ \A k \in 1..Len(results) :
               NoBootDiskName(resps[k]) =>
                   /\ ~results[k].Success
                   /\ PatchesAt(patches, k) = <<>>
                   /\ results[k].Instance = matchedInstances[k]
        /\ pc = "convert" => idx = Len(results) + 1
        /\ pc = "converted" => Len(results) = Len(matchedInstances)

\* The first instance had a disk whose source ends with "/" and failed
\* without a request; the second one was patched and converted.
C11_Witness ==
    /\ pc = "converted"
    /\ Len(results) = 2
    /\ ~resps[1].getErr
    /\ Len(resps[1].Disks) = 1
    /\ resps[1].Disks[1].Source # <<>>
    /\ NoBootDiskName(resps[1])
    /\ ~results[1].Success
    /\ PatchesAt(patches, 1) = <<>>
    /\ results[2].Success
    /\ Len(PatchesAt(patches, 2)) = 1

(***************************************************************************)
(* Properties of the verification.                                         *)
(***************************************************************************)
Verifying == pc \in {"verify", "verified"}

\* The calls VerifyConversion issued in its iteration k.
CallsAt(k) == SelectSeq(calls, LAMBDA c : c.at = k)

\* C12: VerifyConversion keeps the number and the order of the records and
\* the Success flag of each; a failed record keeps every field and no API
\* call is issued for it; of a successful record only NewOS may change.
C12_VerifyFrame ==
    Verifying =>
        /\ Len(conversions) = Len(results)
        /\ \A k \in 1..Len(results) :
               /\ conversions[k].Success = results[k].Success
               /\ [conversions[k] EXCEPT !.NewOS = results[k].NewOS] = results[k]
               /\ ~results[k].Success =>
                      /\ conversions[k] = results[k]
                      /\ CallsAt(k) = <<>>

\* Verification returned over a failed record, left as it was without a
\* call, and a successful one, whose NewOS it rewrote.
C12_Witness ==
    /\ pc = "verified"
    /\ Len(results) = 2
    /\ ~results[1].Success
    /\ conversions[1] = results[1]
    /\ CallsAt(1) = <<>>
    /\ results[2].Success
    /\ conversions[2].Success
    /\ conversions[2].NewOS # results[2].NewOS
    /\ Len(CallsAt(2)) = 2

\* The re-fetch at k gave the instance, a named boot disk and the disk.
DiskFetched(k) == NamedBootDisk(vresps[k]) /\ ~vresps[k].diskErr

\* NewOS of record k is one of the three outcomes of the verification: the
\* identifiers found on the disk, joined; the start note when none was found
\* and the instance does not run; the pending note when none was found and
\* it runs.
ThreeOutcomes(k) ==
    LET found == VerifyLicenseCodes(vresps[k].Licenses)
        running == matchedInstances[k].Status = "RUNNING"
    IN  \/ found # <<>> /\ conversions[k].NewOS = Join(found, <<",", " ">>)
        \/ found = <<>> /\ ~running /\ conversions[k].NewOS = NeedsStartNote
        \/ found = <<>> /\ running /\ conversions[k].NewOS = PendingNote

\* C13 as stated: after VerifyConversion returns, NewOS of every successful
\* record is one of the three outcomes, whatever the re-fetch gave.
C13_ThreeOutcomesAlways ==
    pc = "verified" =>
        \A k \in 1..Len(conversions) :
            conversions[k].Success => ThreeOutcomes(k)

\* C13 amended: NewOS of a successful record is one of the three outcomes
\* when the re-fetch gave the instance, a named boot disk and the disk; when
\* it did not, NewOS keeps the provisional text of the conversion.
C13_ThreeOutcomesOrProvisional ==
    pc = "verified" =>
        \A k \in 1..Len(conversions) :
            conversions[k].Success =>
                /\ DiskFetched(k) => ThreeOutcomes(k)
                /\ ~DiskFetched(k) =>
                       /\ conversions[k].NewOS = results[k].NewOS
                       /\ conversions[k].NewOS \notin {NeedsStartNote, PendingNote}
                       /\ conversions[k].NewOS # <<>>

\* Verification returned with one record verified by the identifiers found
\* and one whose disk could not be fetched, left provisional.
C13_Witness ==
    /\ pc = "verified"
    /\ \E k, j \in 1..Len(conversions) :
           /\ conversions[k].Success
           /\ DiskFetched(k)
           /\ VerifyLicenseCodes(vresps[k].Licenses) # <<>>
           /\ conversions[k].NewOS # results[k].NewOS
           /\ conversions[j].Success
           /\ NamedBootDisk(vresps[j])
           /\ vresps[j].diskErr
           /\ conversions[j].NewOS = results[j].NewOS

\* C14: the identifiers VerifyConversion computes from the license URLs of
\* a disk it fetched are those ListInstances computes from the same URLs,
\* and with them the text it records as NewOS.
C14_SameIdentifiersAsListing ==
    Verifying =>
        \A k \in 1..Len(vresps) :
            (conversions[k].Success /\ DiskFetched(k)) =>
                LET listed == ListLicenseCodes(vresps[k].Licenses)
                IN  /\ VerifyLicenseCodes(vresps[k].Licenses) = listed
                    /\ listed # <<>> =>
                           conversions[k].NewOS = Join(listed, <<",", " ">>)

(***************************************************************************)
(* Properties of the pauses.                                               *)
(***************************************************************************)
\* The pauses of the given length taken so far.
PausesOf(seconds) == SelectSeq(pauses, LAMBDA p : p.seconds = seconds)

\* The request of instance k came back with a status of 200..299 and a body
\* naming an operation.
OperationStarted(k) ==
    /\ Len(PatchesAt(patches, k)) = 1
    /\ ~resps[k].doErr
    /\ resps[k].StatusCode \in 200..299
    /\ resps[k].opName

\* C16 as stated: once verification has begun, the workflow has paused
\* exactly twice whatever the number of instances, a short pause for the
\* batch and then the long one.
C16_TwoPausesPerBatch ==
    Verifying =>
        /\ Len(pauses) = 2
        /\ pauses[1].seconds = ShortPause
        /\ pauses[2].seconds = LongPause

\* C16 amended: the short pause is taken inside the conversion loop, once
\* for each instance whose request succeeded with a body naming an
\* operation, right after that request; the long pause is taken once,
\* after the loop and before the first verification call.
C16_ShortPausePerStartedOperation ==
    /\ \A k \in 1..Len(results) :
           Len(SelectSeq(pauses, LAMBDA p : p.at = k)) = IF OperationStarted(k) THEN 1 ELSE 0
    /\ \A j \in 1..Len(pauses) :
           /\ pauses[j].at \in 0..Len(results)
           /\ (pauses[j].at # 0) <=> (pauses[j].seconds = ShortPause)
           /\ (pauses[j].at = 0) <=> (pauses[j].seconds = LongPause)
           /\ pauses[j].at = 0 => j = Len(pauses)
           /\ \A h \in 1..(j - 1) :
                  /\ pauses[h].at # 0
                  /\ (pauses[j].at = 0 \/ pauses[h].at < pauses[j].at)
    /\ Len(PausesOf(LongPause)) = IF Verifying THEN 1 ELSE 0
    /\ calls # <<>> => Len(PausesOf(LongPause)) = 1

\* Verification returned for two instances, both patched with a started
\* operation: two short pauses and the long one.
C16_Witness ==
    /\ pc = "verified"
    /\ Len(results) = 2
    /\ OperationStarted(1)
    /\ OperationStarted(2)
    /\ Len(pauses) = 3
    /\ Len(PausesOf(ShortPause)) = 2
    /\ pauses[3].seconds = LongPause

(***************************************************************************)
(* Properties of the listing.                                              *)
(***************************************************************************)
\* The position of the n-th "/" of the URL counted from its end, 0 when
\* the URL has fewer.
SlashFromEnd(url, n) ==
    LET slashes == { i \in 1..Len(url) : url[i] = "/" }
    IN  IF Cardinality(slashes) < n THEN 0
        ELSE CHOOSE i \in slashes : Cardinality({ j \in slashes : j > i }) = n - 1

\* The n-th segment of the URL counted from its end.
SegmentFromEnd(url, n) ==
    SubSeq(url, SlashFromEnd(url, n) + 1,
           IF n = 1 THEN Len(url) ELSE SlashFromEnd(url, n - 1) - 1)

\* The base name of the URL: what stands between its last "/" that another
\* character follows and its last character other than "/"; "." for the
\* empty URL and "/" for one of slashes only.
BaseName(url) ==
    LET others == { i \in 1..Len(url) : url[i] # "/" }
    IN  IF url = <<>> THEN <<".">>
        ELSE IF others = {} THEN <<"/">>
        ELSE LET e == CHOOSE i \in others : \A j \in others : j <= i
                 before == { i \in 1..e : url[i] = "/" }
                 b == IF before = {} THEN 0
                      ELSE CHOOSE i \in before : \A j \in before : j <= i
             IN  SubSeq(url, b + 1, e)

\* The identifier of one license URL.
Identifier(url) ==
    IF SlashFromEnd(url, 5) # 0
    THEN SegmentFromEnd(url, 4) \o <<":">> \o SegmentFromEnd(url, 1)
    ELSE BaseName(url)

Listing == pc \in {"list", "listed"} /\ listErr = "none"

\* C15: every listed instance has one identifier per license URL of its
\* first disk, in the order of the URLs: fourth-from-last segment, ":" and
\* last segment for a URL of six segments or more, the base name of the URL
\* otherwise; an instance without disks has no identifier.
C15_OneIdentifierPerBootLicense ==
    Listing =>
        /\ Len(instances) = Len(raws)
        /\ \A k \in 1..Len(instances) :
               LET disks == raws[k].instance.Disks
                   codes == instances[k].LicenseCodes
               IN  IF disks = <<>> THEN codes = <<>>
                   ELSE /\ Len(codes) = Len(disks[1].Licenses)
                        /\ \A j \in 1..Len(codes) :
                               codes[j] = Identifier(disks[1].Licenses[j])

\* A listed instance whose disk holds a URL of seven segments and one of
\* two: identifiers rc:rhel-9 and rhel-9.
C15_Witness ==
    /\ pc = "listed"
    /\ listErr = "none"
    /\ Len(instances) = 1
    /\ raws[1].instance.Disks[1].Licenses = <<Rhel9URL, ShortURL>>
    /\ instances[1].LicenseCodes = << <<"r", "c", ":">> \o Rhel9Code, Rhel9Code >>

\* The occurrences of the instance named `name` under the zone key on the
\* pages: page, position.
Occurrences(zoneKey, name) ==
    UNION { IF zoneKey \in DOMAIN pages[j].Items
            THEN { <<j, i>> : i \in { h \in 1..Len(pages[j].Items[zoneKey]) :
                                        pages[j].Items[zoneKey][h].Name = name } }
            ELSE {} : j \in 1..Len(pages) }

\* The positions of the returned list that hold the instance named `name`
\* of the zone of the key.
Returned(zoneKey, name) ==
    { k \in 1..Len(instances) :
        /\ ZonesPrefix \o instances[k].Zone = zoneKey
        /\ instances[k].Name = name }

ApiNames == { <<"a">>, <<"b">>, <<"c">> }

\* C17: ListInstances returns an error and no instance when a page fails,
\* whatever the pages before it held; when no page fails it returns no
\* error and every instance of every page and zone exactly once.
C17_ErrorOrEveryPage ==
    pc = "listed" =>
        IF \E j \in 1..Len(pages) : pages[j].fetchErr
        THEN listErr = "list" /\ instances = <<>>
        ELSE /\ listErr = "none"
             /\ \A zoneKey \in ZoneKeys, name \in ApiNames :
                    Cardinality(Returned(zoneKey, name))
                        = Cardinality(Occurrences(zoneKey, name))
             /\ \A k \in 1..Len(instances) :
                    \E zoneKey \in ZoneKeys :
                        k \in Returned(zoneKey, instances[k].Name)

\* The first page gave instances of two zones and the second page failed:
\* an error and no instance.
C17_Witness ==
    /\ pc = "listed"
    /\ Len(pages) = 2
    /\ ~pages[1].fetchErr
    /\ Len(raws) >= 2
    /\ raws[1].zoneKey # raws[Len(raws)].zoneKey
    /\ pages[2].fetchErr
    /\ listErr = "list"
    /\ instances = <<>>

(***************************************************************************)
(* Properties of the menu.                                                 *)
(***************************************************************************)
\* The five exported fields of an instance.
FiveFields(instance) ==
    [name |-> instance.Name, zone |-> instance.Zone,
     machineType |-> instance.MachineType, status |-> instance.Status,
     licenses |-> instance.LicenseCodes]

\* The file that holds the five fields of every listed instance, in order.
ProjectionOfListed ==
    [kind |-> "ok", recs |-> [k \in 1..Len(instances) |-> FiveFields(instances[k])]]

\* The menu is shown again after the export option was chosen.
ChoseExport ==
    /\ pc = "menu"
    /\ ~input.err
    /\ input.text \in { <<"5", "\n">>, <<" ", "5", " ", "\n">> }

\* C18 as stated: once the export option was chosen, the export file of
\* the project holds the five fields of every listed instance, in order,
\* and the export file of the other project is as it was.
C18_MenuExportLeavesProjection ==
    /\ otherFile = OtherExport
    /\ ChoseExport => file = ProjectionOfListed

\* C18 amended: the export file of the other project is never touched; once
\* the export option was chosen with a list that is not empty and the write
\* succeeded, the file of the project holds the five fields of every listed
\* instance, in order; with an empty list the handler says so and the file
\* stays as it was.
C18_MenuExportOfListed ==
    /\ [](/\ otherFile = OtherExport
          /\ (ChoseExport /\ console = "Instances exported") =>
                 /\ instances # <<>>
                 /\ file = ProjectionOfListed
          /\ ChoseExport =>
                 ((console = "No instances to export.") <=> (instances = <<>>)))
    /\ [][(pc = "export" /\ instances = <<>>) => file' = file]_vars

\* Two instances were listed and exported from the menu.
C18_Witness ==
    /\ ChoseExport
    /\ console = "Instances exported"
    /\ Len(instances) = 2
    /\ file = ProjectionOfListed
    /\ Len(file.recs) = 2
    /\ file.recs[1] # file.recs[2]

\* Option 3 was chosen at the menu and its command is under way or done.
ChoseThree ==
    /\ pc # "menu"
    /\ ~input.err
    /\ input.text \in { <<"3", "\n">>, <<"0", "3", "\n">> }

\* C19: option 3 of the menu runs the replace-license flow: the command
\* reads a selection, consults no export file and asks no confirmation, the
\* only requests it sends set the metadata of the selected instance, and no
\* disk patch request is sent.
C19_OptionThreeReplacesLicense ==
    ChoseThree =>
        /\ patches = <<>>
        /\ pc \notin {"checked", "convert", "converted", "verify", "verified"}
        /\ answer = NoLine
        /\ \A k \in 1..Len(mutations) : mutations[k].op = "Instances.SetMetadata"
        /\ pc = "refresh" => selection # NoLine

\* The answers that are a "y" once the white space around them is dropped
\* and the case ignored.
YesLines == { <<"y", "\n">>, <<"Y", "\n">>, <<" ", "y", "\t", "\n">> }

\* The confirmation was read and was a yes.
AnsweredYes == ~answer.err /\ answer.text \in YesLines

\* C20: a disk patch request is sent only after, in the same command, the
\* reconciliation succeeded with a matched list that is not empty and the
\* operator answered "y"; every request addresses the boot disk of an
\* instance of the matched list; a command that ends on a reconciliation
\* error, a failed read or any other answer has sent no request at all.
C20_PatchOnlyAfterConfirmedMatch ==
    /\ patches # <<>> =>
           /\ ChoseThree
           /\ err = "none"
           /\ matchedInstances # <<>>
           /\ AnsweredYes
           /\ \A j \in 1..Len(patches) :
                  /\ patches[j].at \in 1..Len(matchedInstances)
                  /\ patches[j].url =
                         <<"https://www.googleapis.com/compute/alpha/projects/",
                           matchedInstances[patches[j].at].Project, "/zones/">>
                         \o matchedInstances[patches[j].at].Zone \o <<"/disks/">>
                         \o AfterLastSlash(resps[patches[j].at].Disks[1].Source)
                         \o <<"?paths=licenses">>
    /\ (ChoseThree /\ pc = "refresh" /\ (err # "none" \/ ~AnsweredYes)) =>
           /\ patches = <<>>
           /\ mutations = <<>>
           /\ results = <<>>
           /\ calls = <<>>
    /\ (ChoseThree /\ err # "none") => answer = NoLine

\* A request was sent after the answer " y" and a tab.
C20_Witness ==
    /\ ChoseThree
    /\ answer.text = <<" ", "y", "\t", "\n">>
    /\ Len(matchedInstances) = 2
    /\ Len(patches) = 1
    /\ patches[1].at = 2

\* The line the menu read last is the number n.
ChoiceRead(n) ==
    /\ ~input.err
    /\ ~Atoi(TrimSpace(input.text)).err
    /\ ~Atoi(TrimSpace(input.text)).negative
    /\ Atoi(TrimSpace(input.text)).value = n

\* The process has ended.
Ended == pc \in {"exit", "fatal"}

\* C21: the menu is shown with a line already read at it only when that
\* line was none of the choices 0 to 4, so that after the choices 1, 2, 3
\* and 4 the menu comes back only through a new listing, whatever the command
\* did; the menu shown again after the choice 5, a line that is no number or
\* an unknown number has the same instance list; the menu is reached only
\* from itself, from the export and from the listing; the listing either
\* gives the list of the menu or ends the process; and the process ends only
\* at the menu on the choice 0 or at the listing.
C21_RefetchBeforeMenu ==
    /\ []((pc = "menu" /\ input # NoLine) => \A n \in 0..4 : ~ChoiceRead(n))
    /\ [](pc = "exit" => ChoiceRead(0))
    /\ [][/\ pc' = "menu" => pc \in {"menu", "export", "refresh"}
          /\ pc \in {"menu", "export"} => instances' = instances
          /\ pc = "export" => pc' = "menu"
          /\ pc = "refresh" =>
                 \/ pc' = "fatal"
                 \/ pc' = "menu" /\ input' = NoLine
                       /\ instances' \in LiveLists(MenuInstances, MaxLive)
          /\ (Ended' /\ ~Ended) =>
                 \/ pc = "menu" /\ pc' = "exit"
                 \/ pc = "refresh" /\ pc' = "fatal"]_vars

\* Option 3 ended on a reconciliation error with two instances listed: the
\* listing is next.
C21_Witness ==
    /\ pc = "refresh"
    /\ ChoiceRead(3)
    /\ err \notin {"none"}
    /\ console = "Error"
    /\ Len(instances) = 2

(***************************************************************************)
(* Properties of the conversion records.                                   *)
(***************************************************************************)
\* The license the patch request of iteration k carried.
TargetLicense(k) == PatchesAt(patches, k)[1].body.licenses[1]

\* C22: every record of ConvertToPAYG stands for the matched instance of
\* its position, and its OriginalOS is the license identifiers of that
\* instance joined in order with ", "; a successful record has an update
\* URL that is not empty, one patch request behind it, and as NewOS the
\* text "PAYG: Converting to " with the license of that request when the
\* instance is RUNNING and the disk-only note with the status otherwise; a
\* failed record has an empty NewOS, and has it still in what
\* VerifyConversion returns.
C22_RecordsConsistent ==
    /\ \A k \in 1..Len(results) :
           /\ results[k].Instance = matchedInstances[k]
           /\ results[k].Success \in BOOLEAN
           /\ results[k].OriginalOS =
                  Join(matchedInstances[k].LicenseCodes, <<",", " ">>)
           /\ results[k].Success =>
                  /\ results[k].ConversionURL # <<>>
                  /\ Len(PatchesAt(patches, k)) = 1
                  /\ TargetLicense(k) \in {Rhel8Server, Rhel9Server}
                  /\ results[k].NewOS =
                         IF matchedInstances[k].Status = "RUNNING"
                         THEN <<"PAYG: Converting to ", TargetLicense(k)>>
                         ELSE <<"PAYG license applied to disk (VM status: ",
                                matchedInstances[k].Status, ")">>
           /\ ~results[k].Success => results[k].NewOS = <<>>
    /\ Verifying =>
           \A k \in 1..Len(conversions) :
               ~conversions[k].Success =>
                   /\ conversions[k].NewOS = <<>>
                   /\ conversions[k].OriginalOS = results[k].OriginalOS

\* Verification returned over the record of a stopped instance, converted
\* with the disk-only note, and the failed record of an instance with two
\* license identifiers, its NewOS still empty.
C22_Witness ==
    /\ pc = "verified"
    /\ Len(results) = 2
    /\ results[1].Success
    /\ matchedInstances[1].Status = "TERMINATED"
    /\ results[1].NewOS[1] = "PAYG license applied to disk (VM status: "
    /\ ~results[2].Success
    /\ Len(matchedInstances[2].LicenseCodes) = 2
    /\ results[2].OriginalOS =
           matchedInstances[2].LicenseCodes[1] \o <<",", " ">>
               \o matchedInstances[2].LicenseCodes[2]
    /\ results[2].ConversionURL # <<>>
    /\ conversions[2].NewOS = <<>>

====
